---- MODULE Spec2Model ----
(***************************************************************************)
(* GoalsSequencer.py (ros/ardros/nodes): a goal file is parsed into a list *)
(* of (x, y, theta) tuples, and the robot is sent to the goals in order    *)
(* through the move_base action client.                                    *)
(*                                                                         *)
(* Text is a sequence of one-character strings, so that strip, startswith, *)
(* split and float act on characters as they do in Python.  A float is the *)
(* exact decimal it denotes: [m |-> mantissa, e |-> decimal places] with   *)
(* trailing zeros removed, so that "1.5" and "1.50" are the same number    *)
(* and "-0.0" equals "0".                                                  *)
(***************************************************************************)
EXTENDS Integers, Sequences, FiniteSets, TLC

\* ------------------------------------------------------------------ bounds

\* The longest goal file of the full run, in lines.
MaxLines == 3

\* The largest number of comma-separated fields of a line given to the parser alone.
MaxFields == 4

\* ------------------------------------------------------- python str methods

\* What str.strip() removes (of the characters that occur here).
Whitespace == {" ", "\t", "\n", "\r"}

\* Text: the sequences of characters.  The recursions below are functions of
\* the text, so that each is evaluated on a value.
Text == Seq(STRING)

lstrip(s) ==
  LET f[t \in Text] ==
        IF t # <<>> /\ Head(t) \in Whitespace THEN f[Tail(t)] ELSE t
  IN f[s]

rstrip(s) ==
  LET f[t \in Text] ==
        IF t # <<>> /\ t[Len(t)] \in Whitespace
        THEN f[SubSeq(t, 1, Len(t) - 1)]
        ELSE t
  IN f[s]

strip(s) == rstrip(lstrip(s))

startswith(s, prefix) ==
  Len(s) >= Len(prefix) /\ SubSeq(s, 1, Len(prefix)) = prefix

\* str.split(sep) for a one-character sep: always at least one part; the
\* parts between the separators, empty ones included.
split(s, sep) ==
  LET f[t \in Text] ==
        IF \E i \in 1..Len(t) : t[i] = sep
        THEN LET i == CHOOSE k \in 1..Len(t) :
                        t[k] = sep /\ \A j \in 1..(k - 1) : t[j] # sep
             IN <<SubSeq(t, 1, i - 1)>> \o f[SubSeq(t, i + 1, Len(t))]
        ELSE <<t>>
  IN f[s]

\* ------------------------------------------------------------------ float()

Digits == {"0", "1", "2", "3", "4", "5", "6", "7", "8", "9"}

DigitValue(c) ==
  CASE c = "0" -> 0 [] c = "1" -> 1 [] c = "2" -> 2 [] c = "3" -> 3 [] c = "4" -> 4
    [] c = "5" -> 5 [] c = "6" -> 6 [] c = "7" -> 7 [] c = "8" -> 8 [] c = "9" -> 9

DigitsToInt(ds) ==
  LET f[t \in Text] ==
        IF t = <<>> THEN 0
        ELSE 10 * f[SubSeq(t, 1, Len(t) - 1)] + DigitValue(t[Len(t)])
  IN f[ds]

AllDigits(ds) == \A i \in 1..Len(ds) : ds[i] \in Digits

\* The decimal m * 10^-e without the trailing zeros of its fraction.
Normalize(m, e) ==
  LET f[n \in Int, d \in Nat] ==
        IF d > 0 /\ n % 10 = 0 THEN f[n \div 10, d - 1] ELSE [m |-> n, e |-> d]
  IN f[m, e]

\* float(text) on decimal literals: surrounding whitespace is dropped, then an
\* optional sign, digits with at most one '.', and at least one digit.  <<v>>
\* for the number, <<>> where float raises ValueError.  (Exponents, inf and
\* nan, which float also accepts, occur in no text given to it here.)
float(text) ==
  LET t == strip(text)
      signed == t # <<>> /\ Head(t) \in {"-", "+"}
      body == IF signed THEN Tail(t) ELSE t
      parts == split(body, ".")
      int == parts[1]
      frac == IF Len(parts) > 1 THEN parts[2] ELSE <<>>
      mag == DigitsToInt(int \o frac)
  IN IF /\ Len(parts) <= 2
        /\ AllDigits(int) /\ AllDigits(frac)
        /\ Len(int) + Len(frac) >= 1
     THEN <<Normalize(IF signed /\ Head(t) = "-" THEN 0 - mag ELSE mag, Len(frac))>>
     ELSE <<>>

\* ---------------------------------------------------------- GoalsFileParser

\* Results and exceptions share one shape: kind is "ok", "None" or the
\* exception's class; val holds the value of an "ok"; msg the exception's text.
Return(v) == [kind |-> "ok", val |-> <<v>>, msg |-> <<>>]
None == [kind |-> "None", val |-> <<>>, msg |-> <<>>]
Raise(class, text) == [kind |-> class, val |-> <<>>, msg |-> text]

ExpectedText == <<"E", "x", "p", "e", "c", "t", "e", "d", " ", "v", "a", "r", "i", "a", "b", "l", "e", " ", "n", "a", "m", "e", " ">>
ButFoundText == <<" ", "b", "u", "t", " ", "f", "o", "u", "n", "d", " ">>

\* The message of the NameError of _ExtractValue.
NameErrorText(variableName, found) ==
  ExpectedText \o variableName \o ButFoundText \o found

\* A plausible slip: the value is converted before the name is compared.
ExtractValueFirst(variableName, linePart) ==
  LET nameValueParts == split(linePart, "=")
  IN IF Len(nameValueParts) < 2 THEN Raise("IndexError", <<>>)
     ELSE LET f == float(strip(nameValueParts[2]))
          IN IF f = <<>> THEN Raise("ValueError", <<>>)
             ELSE IF strip(nameValueParts[1]) # variableName
                  THEN Raise("NameError",
                             NameErrorText(variableName, strip(nameValueParts[1])))
                  ELSE Return(f[1])

\* _ExtractValue: the name before the first '=' must be variableName; the
\* float is taken from the text between the first '=' and the second (or the
\* end).  nameValueParts[1] of a part without '=' is an IndexError.
_ExtractValue(variableName, linePart) ==
  LET nameValueParts == split(linePart, "=")
  IN IF strip(nameValueParts[1]) # variableName
     THEN Raise("NameError", NameErrorText(variableName, strip(nameValueParts[1])))
     ELSE IF Len(nameValueParts) < 2 THEN Raise("IndexError", <<>>)
     ELSE LET f == float(strip(nameValueParts[2]))
          IN IF f = <<>> THEN Raise("ValueError", <<>>) ELSE Return(f[1])

NameX == <<"x">>
NameY == <<"y">>
NameTheta == <<"t", "h", "e", "t", "a">>
CommentMarker == <<"/", "/">>

\* A plausible slip: the test for an empty line is left out.
ParseLineNoEmptyCheck(line) ==
  LET trimmedLine == strip(line)
      lineParts == split(trimmedLine, ",")
      x == _ExtractValue(NameX, lineParts[1])
      y == IF Len(lineParts) < 2 THEN Raise("IndexError", <<>>)
           ELSE _ExtractValue(NameY, lineParts[2])
      theta == IF Len(lineParts) < 3 THEN Raise("IndexError", <<>>)
               ELSE _ExtractValue(NameTheta, lineParts[3])
  IN IF startswith(trimmedLine, CommentMarker) THEN None
     ELSE IF x.kind # "ok" THEN x
     ELSE IF y.kind # "ok" THEN y
     ELSE IF theta.kind # "ok" THEN theta
     ELSE Return(<<x.val[1], y.val[1], theta.val[1]>>)

\* _ParseLine: None for a comment or an empty line; otherwise the first three
\* comma-separated parts are read as x, y and theta, in that order, and the
\* first exception ends the call.  Parts after the third are never read.
_ParseLine(line) ==
  LET trimmedLine == strip(line)
      lineParts == split(trimmedLine, ",")
      x == _ExtractValue(NameX, lineParts[1])
      y == IF Len(lineParts) < 2 THEN Raise("IndexError", <<>>)
           ELSE _ExtractValue(NameY, lineParts[2])
      theta == IF Len(lineParts) < 3 THEN Raise("IndexError", <<>>)
               ELSE _ExtractValue(NameTheta, lineParts[3])
  IN IF startswith(trimmedLine, CommentMarker) THEN None
     ELSE IF Len(trimmedLine) = 0 THEN None
     ELSE IF x.kind # "ok" THEN x
     ELSE IF y.kind # "ok" THEN y
     ELSE IF theta.kind # "ok" THEN theta
     ELSE Return(<<x.val[1], y.val[1], theta.val[1]>>)

\* _CreateMoveBaseGoal: the request of one goal.  The orientation is the
\* rotation by theta about (0, 0, 1), kept as the axis and the angle that
\* quaternion_about_axis is given; the time stamp is left out.
GoalFrameId == "/map"

_CreateMoveBaseGoal(goal) ==
  [frame_id |-> GoalFrameId,
   x |-> goal[1],
   y |-> goal[2],
   orientation |-> [axis |-> <<0, 0, 1>>, angle |-> goal[3]]]

\* ------------------------------------------------------------- the inputs

LineComment == <<"/", "/", " ", "c", "\n">>
LineBlank == <<" ", "\t", "\n">>
LineGoalA == <<"x", " ", "=", " ", "1", ".", "5", ",", " ", "y", " ", "=", " ", "-", "2", ".", "2", "5", ",", " ", "t", "h", "e", "t", "a", " ", "=", " ", "0", ".", "0", "\n">>
LineGoalB == <<"x", "=", "2", ",", "y", "=", ".", "5", ",", " ", "t", "h", "e", "t", "a", "=", "-", "1", ".", "\n">>
LineSwapped == <<"y", " ", "=", " ", "1", ".", "5", ",", " ", "x", " ", "=", " ", "-", "2", ".", "2", "5", ",", " ", "t", "h", "e", "t", "a", " ", "=", " ", "0", ".", "0", "\n">>
LineNonNumeric == <<"x", " ", "=", " ", "a", "b", "c", ",", " ", "y", " ", "=", " ", "1", ".", "0", ",", " ", "t", "h", "e", "t", "a", " ", "=", " ", "0", ".", "0", "\n">>
LineTwoFields == <<"x", " ", "=", " ", "1", ".", "5", ",", " ", "y", " ", "=", " ", "2", "\n">>

\* The lines a goal file of the full run is made of.
FileLines ==
  {LineComment, LineBlank, LineGoalA, LineGoalB,
   LineSwapped, LineNonNumeric, LineTwoFields}

Files == UNION {[1..n -> FileLines] : n \in 0..MaxLines}

FieldX == <<"x", " ", "=", " ", "1", ".", "5">>
FieldY == <<" ", "y", " ", "=", " ", "-", "2", ".", "2", "5">>
FieldTheta == <<" ", "t", "h", "e", "t", "a", " ", "=", " ", "0", ".", "0">>
FieldNonNumeric == <<"x", " ", "=", " ", "a", "b", "c">>
FieldTwoEquals == <<"x", " ", "=", " ", "1", " ", "=", " ", "2">>
FieldNoEquals == <<" ", "y">>
FieldEmpty == <<>>

\* The fields a line given to the parser alone is made of.
Fields ==
  {FieldX, FieldY, FieldTheta, FieldNonNumeric, FieldTwoEquals,
   FieldNoEquals, FieldEmpty}

\* The fields with a comma between each two.
Join(fs) ==
  LET f[k \in 1..Len(fs)] ==
        IF k = Len(fs) THEN fs[k] ELSE fs[k] \o <<",">> \o f[k + 1]
  IN f[1]

ParserLines ==
  {Join(fs) \o <<"\n">> : fs \in UNION {[1..n -> Fields] : n \in 1..MaxFields}}

\* ------------------------------------------------------------------ state

VARIABLES
  file,        \* the lines of the goal file
  fileOk,      \* whether open(filePath, 'r') succeeds
  pc,          \* where the process is
  lineNo,      \* Parse: the line the for loop reads next
  parseGoals,  \* Parse: its local list goals
  goals,       \* __main__: <<>> while goals is unassigned, <<list>> after
  exc,         \* the uncaught exception that ended the process, or None
  exitStatus,  \* <<>> while the process runs, <<status>> once it has exited
  client,      \* whether the node is initialised and the action client made
  serverUp,    \* move_base: whether the action server listens for goals
  idx,         \* NavigateToGoals: the place in goals of the for loop
  submitted,   \* move_base: the requests received, in order
  srv,         \* move_base: the status of each request received
  log          \* what was printed and logged, in order

vars ==
  <<file, fileOk, pc, lineNo, parseGoals, goals, exc, exitStatus, client,
    serverUp, idx, submitted, srv, log>>

TerminalStatuses == {"PREEMPTED", "SUCCEEDED", "ABORTED", "REJECTED", "RECALLED"}

\* SimpleActionClient.get_state(): the status of the goal sent last.
get_state == srv[Len(srv)]

Entry(kind, arg) == [kind |-> kind, arg |-> arg]

InitRest ==
  /\ pc = "start"
  /\ lineNo = 0
  /\ parseGoals = <<>>
  /\ goals = <<>>
  /\ exc = None
  /\ exitStatus = <<>>
  /\ client = FALSE
  /\ serverUp = FALSE
  /\ idx = 0
  /\ submitted = <<>>
  /\ srv = <<>>
  /\ log = <<>>

Init ==
  /\ fileOk \in BOOLEAN
  /\ file \in (IF fileOk THEN Files ELSE {<<>>})
  /\ InitRest

\* An uncaught exception: the traceback is printed and the process exits 1.
Uncaught(e) ==
  /\ pc' = "crashed"
  /\ exc' = e
  /\ exitStatus' = <<1>>

\* ------------------------------------------------------ __main__ and Parse

\* __main__ up to the call of Parse, and Parse up to its loop.
Main_Open ==
  /\ pc = "start"
  /\ IF fileOk
     THEN /\ pc' = "parse"
          /\ lineNo' = 1
          /\ parseGoals' = <<>>
          /\ UNCHANGED <<exc, exitStatus>>
     ELSE /\ Uncaught(Raise("IOError", <<>>))
          /\ UNCHANGED <<lineNo, parseGoals>>
  /\ UNCHANGED <<file, fileOk, goals, client, serverUp, idx, submitted, srv, log>>

\* A plausible slip: a line that cannot be parsed is skipped.
Parse_LineSkipBad ==
  /\ pc = "parse"
  /\ lineNo <= Len(file)
  /\ \E goal \in {_ParseLine(file[lineNo])} :
        /\ parseGoals' = IF goal.kind = "ok" THEN Append(parseGoals, goal.val[1])
                         ELSE parseGoals
        /\ lineNo' = lineNo + 1
        /\ UNCHANGED <<pc, exc, exitStatus>>
  /\ UNCHANGED <<file, fileOk, goals, client, serverUp, idx, submitted, srv, log>>

\* A plausible slip: the goal is put at the front of the list.
Parse_LinePrepend ==
  /\ pc = "parse"
  /\ lineNo <= Len(file)
  /\ \E goal \in {_ParseLine(file[lineNo])} :
        IF goal.kind \in {"ok", "None"}
        THEN /\ parseGoals' = IF goal.kind = "ok" THEN <<goal.val[1]>> \o parseGoals
                              ELSE parseGoals
             /\ lineNo' = lineNo + 1
             /\ UNCHANGED <<pc, exc, exitStatus>>
        ELSE /\ Uncaught(goal)
             /\ UNCHANGED <<lineNo, parseGoals>>
  /\ UNCHANGED <<file, fileOk, goals, client, serverUp, idx, submitted, srv, log>>

\* One turn of the loop of Parse: the next line is parsed, a goal is
\* appended, None is passed over, and an exception leaves Parse and __main__.
Parse_Line ==
  /\ pc = "parse"
  /\ lineNo <= Len(file)
  /\ \E goal \in {_ParseLine(file[lineNo])} :
        IF goal.kind \in {"ok", "None"}
        THEN /\ parseGoals' = IF goal.kind = "ok" THEN Append(parseGoals, goal.val[1])
                              ELSE parseGoals
             /\ lineNo' = lineNo + 1
             /\ UNCHANGED <<pc, exc, exitStatus>>
        ELSE /\ Uncaught(goal)
             /\ UNCHANGED <<lineNo, parseGoals>>
  /\ UNCHANGED <<file, fileOk, goals, client, serverUp, idx, submitted, srv, log>>

\* The file is read: Parse returns its list, __main__ binds and prints it.
Parse_Return ==
  /\ pc = "parse"
  /\ lineNo > Len(file)
  /\ goals' = <<parseGoals>>
  /\ log' = Append(log, Entry("goals", parseGoals))
  /\ pc' = "construct"
  /\ UNCHANGED <<file, fileOk, lineNo, parseGoals, exc, exitStatus, client,
                 serverUp, idx, submitted, srv>>

\* ----------------------------------------------------------- GoalsSequencer

\* __init__ up to wait_for_server: the node is initialised and the action
\* client of move_base is made.
Sequencer_Init ==
  /\ pc = "construct"
  /\ client' = TRUE
  /\ pc' = "wait_for_server"
  /\ UNCHANGED <<file, fileOk, lineNo, parseGoals, goals, exc, exitStatus,
                 serverUp, idx, submitted, srv, log>>

\* wait_for_server() returns once the action server listens; then
\* NavigateToGoals(goals) is entered.
WaitForServer ==
  /\ pc = "wait_for_server"
  /\ serverUp
  /\ idx' = 1
  /\ pc' = "loop"
  /\ UNCHANGED <<file, fileOk, lineNo, parseGoals, goals, exc, exitStatus,
                 client, serverUp, submitted, srv, log>>

\* A plausible slip: the loop ends one goal early.
NavigateToGoalsOneShort ==
  /\ pc = "loop"
  /\ IF idx < Len(goals[1])
     THEN /\ log' = Append(log, Entry("announce", <<goals[1][idx]>>))
          /\ pc' = "navigate"
          /\ UNCHANGED exitStatus
     ELSE /\ pc' = "done"
          /\ exitStatus' = <<0>>
          /\ UNCHANGED log
  /\ UNCHANGED <<file, fileOk, lineNo, parseGoals, goals, exc, client,
                 serverUp, idx, submitted, srv>>

\* The head of the loop of NavigateToGoals: the next goal is announced, or,
\* after the last one, NavigateToGoals and __main__ end and the process
\* exits 0.
NavigateToGoals ==
  /\ pc = "loop"
  /\ IF idx <= Len(goals[1])
     THEN /\ log' = Append(log, Entry("announce", <<goals[1][idx]>>))
          /\ pc' = "navigate"
          /\ UNCHANGED exitStatus
     ELSE /\ pc' = "done"
          /\ exitStatus' = <<0>>
          /\ UNCHANGED log
  /\ UNCHANGED <<file, fileOk, lineNo, parseGoals, goals, exc, client,
                 serverUp, idx, submitted, srv>>

\* _NavigateToGoal up to send_goal: the request is made, printed and sent;
\* move_base receives it as pending.
SendGoal ==
  /\ pc = "navigate"
  /\ LET moveBaseGoal == _CreateMoveBaseGoal(goals[1][idx])
     IN /\ log' = Append(log, Entry("request", <<moveBaseGoal>>))
        /\ submitted' = Append(submitted, moveBaseGoal)
  /\ srv' = Append(srv, "PENDING")
  /\ pc' = "wait_for_result"
  /\ UNCHANGED <<file, fileOk, lineNo, parseGoals, goals, exc, exitStatus,
                 client, serverUp, idx>>

\* A plausible slip: the result is not waited for.
WaitForResultNoWait ==
  /\ pc = "wait_for_result"
  /\ pc' = "get_state"
  /\ UNCHANGED <<file, fileOk, lineNo, parseGoals, goals, exc, exitStatus,
                 client, serverUp, idx, submitted, srv, log>>

\* wait_for_result() returns once the goal sent last has a terminal status.
WaitForResult ==
  /\ pc = "wait_for_result"
  /\ get_state \in TerminalStatuses
  /\ pc' = "get_state"
  /\ UNCHANGED <<file, fileOk, lineNo, parseGoals, goals, exc, exitStatus,
                 client, serverUp, idx, submitted, srv, log>>

\* A plausible slip: a preempted goal is taken for a reached one.
OutcomePreemptedReached(state) ==
  IF state \in {"SUCCEEDED", "PREEMPTED"}
  THEN Entry("loginfo", <<"Goal reached">>)
  ELSE Entry("logerr", <<"Could not execute goal for some reason">>)

\* The line logged for the state of the goal.
Outcome(state) ==
  IF state = "SUCCEEDED"
  THEN Entry("loginfo", <<"Goal reached">>)
  ELSE Entry("logerr", <<"Could not execute goal for some reason">>)

\* A plausible slip: the loop is left when a goal is not reached.
LogOutcomeStopOnFailure ==
  /\ pc = "get_state"
  /\ log' = Append(log, Outcome(get_state))
  /\ IF get_state = "SUCCEEDED"
     THEN idx' = idx + 1 /\ pc' = "loop" /\ UNCHANGED exitStatus
     ELSE idx' = idx /\ pc' = "done" /\ exitStatus' = <<0>>
  /\ UNCHANGED <<file, fileOk, lineNo, parseGoals, goals, exc, client,
                 serverUp, submitted, srv>>

\* The end of _NavigateToGoal: the outcome is logged, and the loop of
\* NavigateToGoals goes on to the next goal whatever the outcome.
LogOutcome ==
  /\ pc = "get_state"
  /\ log' = Append(log, Outcome(get_state))
  /\ idx' = idx + 1
  /\ pc' = "loop"
  /\ UNCHANGED <<file, fileOk, lineNo, parseGoals, goals, exc, exitStatus,
                 client, serverUp, submitted, srv>>

\* ---------------------------------------------- move_base, the action server

\* The action server starts listening for goals.
ServerStart ==
  /\ ~serverUp
  /\ serverUp' = TRUE
  /\ UNCHANGED <<file, fileOk, pc, lineNo, parseGoals, goals, exc, exitStatus,
                 client, idx, submitted, srv, log>>

\* A pending goal is accepted.
ServerAccept ==
  /\ \E k \in 1..Len(srv) :
       /\ srv[k] = "PENDING"
       /\ srv' = [srv EXCEPT ![k] = "ACTIVE"]
  /\ UNCHANGED <<file, fileOk, pc, lineNo, parseGoals, goals, exc, exitStatus,
                 client, serverUp, idx, submitted, log>>

\* A pending goal is rejected, or recalled before it was accepted.
ServerRefuse ==
  /\ \E k \in 1..Len(srv), status \in {"REJECTED", "RECALLED"} :
       /\ srv[k] = "PENDING"
       /\ srv' = [srv EXCEPT ![k] = status]
  /\ UNCHANGED <<file, fileOk, pc, lineNo, parseGoals, goals, exc, exitStatus,
                 client, serverUp, idx, submitted, log>>

\* An active goal ends: reached, given up, or preempted.
ServerFinish ==
  /\ \E k \in 1..Len(srv), status \in {"SUCCEEDED", "ABORTED", "PREEMPTED"} :
       /\ srv[k] = "ACTIVE"
       /\ srv' = [srv EXCEPT ![k] = status]
  /\ UNCHANGED <<file, fileOk, pc, lineNo, parseGoals, goals, exc, exitStatus,
                 client, serverUp, idx, submitted, log>>

\* ---------------------------------------------------------- specifications

Program ==
  \/ Main_Open
  \/ Parse_Line
  \/ Parse_Return
  \/ Sequencer_Init
  \/ WaitForServer
  \/ NavigateToGoals
  \/ SendGoal
  \/ WaitForResult
  \/ LogOutcome

Server ==
  \/ ServerStart
  \/ ServerAccept
  \/ ServerRefuse
  \/ ServerFinish

Next == Program \/ Server

\* The run of the node on a goal file.
Spec == Init /\ [][Next]_vars

\* The run of a process that is scheduled, against a move_base that starts
\* and brings every goal it received to a terminal status.
FairSpec ==
  /\ Spec
  /\ WF_vars(Program)
  /\ WF_vars(ServerStart)
  /\ WF_vars(ServerAccept \/ ServerRefuse)
  /\ WF_vars(ServerFinish)

\* The parser alone, on a file of one line made of any fields.
ParserInit ==
  /\ fileOk = TRUE
  /\ file \in {<<line>> : line \in ParserLines}
  /\ InitRest

ParserNext ==
  \/ Main_Open
  \/ Parse_Line
  \/ Parse_Return

ParserSpec == ParserInit /\ [][ParserNext]_vars

\* ------------------------------------------------------------------ claims

\* The goal a request carries.
GoalOf(request) == <<request.x, request.y, request.orientation.angle>>

IsOutcome(entry) == entry.kind \in {"loginfo", "logerr"}

\* The outcome lines logged so far.
OutcomeLines == SelectSeq(log, IsOutcome)

IsSequencerLine(entry) == entry.kind \in {"announce", "loginfo", "logerr"}

\* The announcements and outcome lines logged so far, in order.
SequencerLines == SelectSeq(log, IsSequencerLine)

\* The lines of FileLines by what the file format makes of them.
IgnoredLines == {LineComment, LineBlank}
FailingLines == {LineSwapped, LineNonNumeric, LineTwoFields}

IsRecord(line) == line \notin IgnoredLines

\* The numbers the two well-formed records of FileLines denote.
TripleOf(line) ==
  IF line = LineGoalA
  THEN <<[m |-> 15, e |-> 1], [m |-> 0 - 225, e |-> 2], [m |-> 0, e |-> 0]>>
  ELSE <<[m |-> 2, e |-> 0], [m |-> 5, e |-> 1], [m |-> 0 - 1, e |-> 0]>>

\* C1: NavigateToGoals submits one request per goal, in the order of the
\* sequence, whatever the terminal statuses are: the requests submitted are
\* always the first goals of the sequence, and at the end of the run they
\* are the whole sequence.
C1_SubmittedEqualsGoals ==
  /\ goals = <<>> => submitted = <<>>
  /\ goals # <<>> =>
       /\ Len(submitted) <= Len(goals[1])
       /\ \A k \in 1..Len(submitted) : GoalOf(submitted[k]) = goals[1][k]
       /\ pc = "done" => Len(submitted) = Len(goals[1])

\* A run of three goals whose second goal was not reached has ended.
C1_Witness ==
  /\ pc = "done"
  /\ Len(submitted) = 3
  /\ srv[1] = "SUCCEEDED"
  /\ srv[2] # "SUCCEEDED"
  /\ srv[3] = "SUCCEEDED"

\* C2: at most one goal is in flight: every request but the last one
\* submitted has a terminal status, so a goal is submitted only after the
\* one before it has ended.
C2_AtMostOneInFlight ==
  /\ \A k \in 1..(Len(srv) - 1) : srv[k] \in TerminalStatuses
  /\ Cardinality({k \in 1..Len(srv) : srv[k] \notin TerminalStatuses}) <= 1

\* A later goal is being executed.
C2_Witness ==
  /\ Len(srv) >= 2
  /\ srv[Len(srv)] = "ACTIVE"

\* C3: when the file cannot be opened or one of its lines cannot be parsed,
\* Parse returns nothing and the process ends, with status 1, before any
\* navigation: the list is never bound, no line after the failing one is
\* read, the action client is never made and no goal is submitted.
C3_ParseFailureIsFatal ==
  (~fileOk \/ \E i \in 1..Len(file) : file[i] \in FailingLines) =>
    /\ pc \in {"start", "parse", "crashed"}
    /\ goals = <<>>
    /\ ~client
    /\ submitted = <<>>
    /\ pc = "parse" => \A i \in 1..(lineNo - 1) : file[i] \notin FailingLines
    /\ pc = "crashed" => exitStatus = <<1>>
    /\ pc # "crashed" => exitStatus = <<>>

\* The parse failed on a line that follows a valid record.
C3_Witness ==
  /\ pc = "crashed"
  /\ exc.kind = "NameError"
  /\ Len(parseGoals) >= 1
  /\ goals = <<>>

\* C4: for a file of well-formed records, comments and blank lines, Parse
\* returns the triples of the records, one per record, in the order of the
\* file.
C4_ParseReturnsRecordsInOrder ==
  (fileOk /\ \A i \in 1..Len(file) : file[i] \notin FailingLines) =>
    /\ pc # "crashed"
    /\ goals # <<>> =>
         LET records == SelectSeq(file, IsRecord)
         IN /\ Len(goals[1]) = Len(records)
            /\ \A k \in 1..Len(records) : goals[1][k] = TripleOf(records[k])

\* Two different records, with an ignored line in the file, were returned.
C4_Witness ==
  /\ goals # <<>>
  /\ Len(goals[1]) = 2
  /\ goals[1][1] # goals[1][2]
  /\ \E i \in 1..Len(file) : file[i] \in IgnoredLines

\* The comma-separated fields of the line given to the parser alone.
LineFields == split(strip(file[1]), ",")

FieldsRead == IF Len(LineFields) < 3 THEN Len(LineFields) ELSE 3

ExpectedName(p) == <<NameX, NameY, NameTheta>>[p]

\* The name of a field: the text before its first '=', trimmed.
FoundName(field) == strip(split(field, "=")[1])

\* A field that is read without an exception.
ReadsWell(p) ==
  LET nameValueParts == split(LineFields[p], "=")
  IN /\ strip(nameValueParts[1]) = ExpectedName(p)
     /\ Len(nameValueParts) >= 2
     /\ float(nameValueParts[2]) # <<>>

\* The parser alone has parsed its line.
LineParsed == pc = "crashed" \/ (pc \in {"parse", "construct"} /\ lineNo > 1)

\* C5 (as claimed): a line yields a goal record only when it has exactly
\* three comma-separated fields.
C5_ExactlyThreeFields ==
  (LineParsed /\ parseGoals # <<>>) => Len(LineFields) = 3

\* C6 (as claimed): a record whose field at position 1, 2 or 3 has another
\* name than x, y, theta fails with the NameError that names the expected
\* name and the name found, the first such field from the left.
C6_WrongNameIsNameError ==
  LineParsed =>
    \A p \in 1..FieldsRead :
      (/\ FoundName(LineFields[p]) # ExpectedName(p)
       /\ \A q \in 1..(p - 1) : FoundName(LineFields[q]) = ExpectedName(q)
       /\ strip(file[1]) # <<>>) =>
        /\ pc = "crashed"
        /\ exc = Raise("NameError",
                       NameErrorText(ExpectedName(p), FoundName(LineFields[p])))

\* C6 (amended): the NameError is raised when every field to the left of
\* the misnamed one is read without an exception.
C6_WrongNameAfterGoodFields ==
  LineParsed =>
    \A p \in 1..FieldsRead :
      (/\ FoundName(LineFields[p]) # ExpectedName(p)
       /\ \A q \in 1..(p - 1) : ReadsWell(q)
       /\ strip(file[1]) # <<>>) =>
        /\ pc = "crashed"
        /\ exc = Raise("NameError",
                       NameErrorText(ExpectedName(p), FoundName(LineFields[p])))

\* The line y = -2.25,x = 1.5, theta = 0.0 failed: expected x, found y.
C6_Witness ==
  /\ file[1] = Join(<<FieldY, FieldX, FieldTheta>>) \o <<"\n">>
  /\ pc = "crashed"
  /\ exc = Raise("NameError", NameErrorText(NameX, NameY))

\* The value segment of a field: the text after its first '='.
ValueSegment(field) ==
  LET first == CHOOSE k \in 1..Len(field) :
                 field[k] = "=" /\ \A j \in 1..(k - 1) : field[j] # "="
  IN SubSeq(field, first + 1, Len(field))

\* C7 (as claimed): a field with the expected name whose value segment is
\* not a float, the fields to its left being read without an exception,
\* fails with a ValueError.
C7_NonFloatIsValueError ==
  LineParsed =>
    \A p \in 1..FieldsRead :
      (/\ FoundName(LineFields[p]) = ExpectedName(p)
       /\ Len(split(LineFields[p], "=")) >= 2
       /\ float(ValueSegment(LineFields[p])) = <<>>
       /\ \A q \in 1..(p - 1) : ReadsWell(q)) =>
        /\ pc = "crashed"
        /\ exc.kind = "ValueError"

\* C8: every goal submitted gets one outcome line, after its terminal status
\* and before the next goal is announced: the announcements and outcome
\* lines alternate, the k-th outcome line is the info line when the k-th
\* request ended SUCCEEDED and the error line when it ended otherwise.
C8_OneOutcomeLinePerGoal ==
  LET lines == SequencerLines
  IN /\ Len(OutcomeLines) <= Len(srv)
     /\ Len(srv) <= Len(OutcomeLines) + 1
     /\ pc \in {"loop", "done"} => Len(OutcomeLines) = Len(srv)
     /\ \A j \in 1..Len(lines) :
          IF j % 2 = 1
          THEN lines[j] = Entry("announce", <<goals[1][(j + 1) \div 2]>>)
          ELSE LET k == j \div 2
               IN /\ k <= Len(srv)
                  /\ srv[k] \in TerminalStatuses
                  /\ srv[k] = "SUCCEEDED" =>
                       lines[j] = Entry("loginfo", <<"Goal reached">>)
                  /\ srv[k] # "SUCCEEDED" =>
                       lines[j] = Entry("logerr", <<"Could not execute goal for some reason">>)

\* Success, error and success were logged for three goals.
C8_Witness ==
  /\ pc = "done"
  /\ Len(SequencerLines) = 6
  /\ SequencerLines[2].kind = "loginfo"
  /\ SequencerLines[4].kind = "logerr"
  /\ SequencerLines[6].kind = "loginfo"
  /\ srv[2] = "PREEMPTED"

\* C9: a file of comment lines and blank lines parses to the empty list, and
\* its run submits nothing and exits with status 0.
C9_OnlyIgnoredLines ==
  (fileOk /\ \A i \in 1..Len(file) : file[i] \in IgnoredLines) =>
    /\ pc # "crashed"
    /\ goals # <<>> => goals[1] = <<>>
    /\ submitted = <<>>
    /\ srv = <<>>
    /\ pc = "done" => exitStatus = <<0>>
    /\ pc # "done" => exitStatus = <<>>

\* The run of a file with a comment line and a blank line has ended.
C9_Witness ==
  /\ pc = "done"
  /\ exitStatus = <<0>>
  /\ \E i \in 1..Len(file) : file[i] = LineComment
  /\ \E i \in 1..Len(file) : file[i] = LineBlank
  /\ \A i \in 1..Len(file) : file[i] \in IgnoredLines

\* The run has ended normally with every goal submitted and its outcome logged.
RunComplete ==
  /\ pc = "done"
  /\ exitStatus = <<0>>
  /\ Len(submitted) = Len(goals[1])
  /\ Len(OutcomeLines) = Len(goals[1])
  /\ \A k \in 1..Len(srv) : srv[k] \in TerminalStatuses

\* C10: once the file is parsed, a run whose action server starts and ends
\* every goal terminates with status 0, every goal submitted and its outcome
\* logged; and no run ends normally before that.
C10_RunTerminates ==
  /\ (goals # <<>>) ~> RunComplete
  /\ [](pc = "done" => RunComplete)

\* A run of two goals or more has ended normally.
C10_Witness ==
  /\ pc = "done"
  /\ exitStatus = <<0>>
  /\ Len(goals[1]) >= 2
  /\ Len(OutcomeLines) = Len(goals[1])

====
